---------------------------- MODULE Spec2Model ----------------------------
(***************************************************************************)
(* Convective profile engine of MeteoBot (src/meteo.py, duplicated in      *)
(* src/calcola_SBCAPE.py): profile assembly, 10 hPa resampling, parcel     *)
(* lift, buoyancy integration (LFC / EL / CIN / CAPE), most-unstable       *)
(* search and the two severity scorers.                                    *)
(*                                                                         *)
(* Numbers.  The code computes in IEEE doubles; the model computes the     *)
(* same formulas in fixed point, one unit = 10^-6 ("micro"):               *)
(*   temperatures K or degC, pressures hPa, mixing ratios kg/kg,           *)
(*   relative humidity as a fraction, logarithms - all times 10^6;         *)
(*   CAPE and CIN in J/kg times 10^3.                                      *)
(* FMul and FDiv are the product and the quotient of two such numbers,     *)
(* rounded down to the unit; Exp and Ln are series evaluated to the unit.  *)
(* Every intermediate value stays below 2^31.                              *)
(***************************************************************************)
EXTENDS Integers, Sequences, FiniteSets, TLC

ONE == 10 ^ 6

(* Python None, for quantities that are never negative (indices,           *)
(* pressures, CAPE) and for absent records.                                *)
None == 0 - 1

(* JSON null in an hourly series (a temperature below absolute zero).      *)
Null == 0 - 999000000

Min(a, b) == IF a <= b THEN a ELSE b
Max(a, b) == IF a >= b THEN a ELSE b
Abs(a) == IF a < 0 THEN 0 - a ELSE a

(* 0-based indexing of a Python list held as a TLA+ sequence.              *)
At(s, i) == s[i + 1]
(* s[i:]                                                                   *)
SliceFrom(s, i) == SubSeq(s, i + 1, Len(s))

---------------------------------------------------------------------------
(* Fixed-point arithmetic.                                                 *)

(* floor(a * b / 10^6), by three-digit limbs.                              *)
FMul(a, b) ==
  LET ah == a \div 1000
      al == a % 1000
      bh == b \div 1000
      bl == b % 1000
  IN  ah * bh + ((ah * bl + al * bh) + ((al * bl) \div 1000)) \div 1000

(* floor(a * 10^6 / b) for a >= 0, b > 0: long division, two decimal       *)
(* digits at a time (a divisor above 20 is first cut to four decimals).    *)
FDivPos(a, b) ==
  IF b > 20000000
  THEN LET c  == b \div 100
           q0 == a \div c
           r0 == a % c
           q1 == (r0 * 100) \div c
           r1 == (r0 * 100) % c
           q2 == (r1 * 100) \div c
       IN  q0 * 10000 + q1 * 100 + q2
  ELSE LET q0 == a \div b
           r0 == a % b
           q1 == (r0 * 100) \div b
           r1 == (r0 * 100) % b
           q2 == (r1 * 100) \div b
           r2 == (r1 * 100) % b
           q3 == (r2 * 100) \div b
       IN  q0 * ONE + q1 * 10000 + q2 * 100 + q3

Sgn(a) == IF a < 0 THEN 0 - 1 ELSE 1

(* a / b, rounded towards zero.                                            *)
FDiv(a, b) == Sgn(a) * Sgn(b) * FDivPos(Abs(a), Abs(b))

LN2 == 693147

(* exp(r) for |r| <= ln(2)/2: Taylor polynomial of degree 8 (Horner).      *)
RECURSIVE ExpHorner(_, _, _)
ExpHorner(r, n, acc) ==
  IF n = 0 THEN acc ELSE ExpHorner(r, n - 1, ONE + FMul(r, acc) \div n)

ExpScale(e, k) == IF k >= 0 THEN e * (2 ^ k) ELSE e \div (2 ^ (0 - k))

ExpReduced(x, k) == ExpScale(ExpHorner(x - k * LN2, 8, ONE), k)

(* np.exp: exp(x) = 2^k * exp(x - k ln 2).                                 *)
Exp(x) == ExpReduced(x, (x + LN2 \div 2) \div LN2)

(* 1 + z2/3 + z2^2/5 + z2^3/7 + z2^4/9                                     *)
LnPoly(z2) ==
  ONE + FMul(z2, ONE \div 3 + FMul(z2, ONE \div 5
        + FMul(z2, ONE \div 7 + FMul(z2, ONE \div 9))))

LnSeries(z) == 2 * FMul(z, LnPoly(FMul(z, z)))

(* ln(x) for x in [1/sqrt 2, sqrt 2): 2 atanh((x-1)/(x+1)), to z^9.        *)
LnCore(x) == LnSeries(FDiv(x - ONE, x + ONE))

(* np.log, x > 0.                                                          *)
RECURSIVE Ln(_)
Ln(x) ==
  IF x >= 1414214 THEN LN2 + Ln(x \div 2)
  ELSE IF x < 707107 THEN Ln(x * 2) - LN2
  ELSE LnCore(x)

(* x ** k                                                                  *)
Pow(x, k) == Exp(FMul(k, Ln(x)))

---------------------------------------------------------------------------
(* Physical constants (src/meteo.py:533-538), as the ratios the formulas   *)
(* use them in.                                                            *)

EPSILON == 622000        \* _EPSILON = 0.622
RD_CP   == 285622        \* _RD / _CP = 287.05 / 1005.0
CP_RD   == 3501132       \* _CP / _RD
RD_MILLI == 287050       \* _RD / 1000
LV_RD   == 8709284       \* _LV / _RD / 1000
ELL_CR  == 13475615      \* _EPSILON * _LV * _LV / (_CP * _RD) / 10^6
ZERO_C  == 273150000     \* 273.15

---------------------------------------------------------------------------
(* Thermodynamic functions.                                                *)

(* 6.112 * exp(17.67 * T / (T + 243.5)), T in degC, result in hPa.         *)
vapor_pressure(T_celsius) ==
  FMul(6112000, Exp(FMul(17670000, FDiv(T_celsius, T_celsius + 243500000))))

(* _EPSILON * e / (p - e)                                                  *)
mixing_ratio(e, p) == FDiv(FMul(EPSILON, e), p - e)

(* T * (1 + q / _EPSILON) / (1 + q)                                        *)
virtual_temperature(T_kelvin, q) ==
  FDiv(FMul(T_kelvin, ONE + FDiv(q, EPSILON)), ONE + q)

dewpoint_to_mixing_ratio(Td_celsius, p_hPa) ==
  mixing_ratio(vapor_pressure(Td_celsius), p_hPa)

(* Tl = 1 / (1/(Td-56) + ln(T/Td)/800) + 56; theta = T (1000/p)^(Rd/Cp);   *)
(* 1000 (Tl/theta)^(Cp/Rd).  The reciprocals are carried times 1000.       *)
lcl_pressure(T_kelvin, Td_kelvin, p_hPa) ==
  LET inv   == FDiv(1000 * ONE, Td_kelvin - 56000000)
               + FDiv(Ln(FDiv(T_kelvin, Td_kelvin)) * 10, 8000000)
      Tl    == FDiv(1000 * ONE, inv) + 56000000
      theta == FMul(T_kelvin, Pow(FDiv(1000 * ONE, p_hPa), RD_CP))
  IN  FMul(1000 * ONE, Pow(FDiv(Tl, theta), CP_RD))

(* (1 + Lv ws / (Rd T)) / (1 + eps Lv^2 ws / (Cp Rd T^2)), a = 1000 ws / T *)
lapse_factor(a, T_kelvin) ==
  LET numerator   == ONE + FMul(LV_RD, a)
      denominator == ONE + FMul(ELL_CR, FDiv(a * 1000, T_kelvin))
  IN  FDiv(numerator, denominator)

(* (Rd T / (Cp p)) * (1 + Lv ws / (Rd T)) / (1 + eps Lv^2 ws / (Cp Rd T^2)) *)
moist_adiabatic_lapse_rate(T_kelvin, p_hPa) ==
  LET es == vapor_pressure(T_kelvin - ZERO_C)
      ws == mixing_ratio(es, p_hPa)
  IN  FMul(FMul(RD_CP, FDiv(T_kelvin, p_hPa)),
           lapse_factor(FDiv(ws * 1000, T_kelvin), T_kelvin))

---------------------------------------------------------------------------
(* Parcel lift.                                                            *)

(* np.linspace(a, b, n)[j]: a + j * step, the last point being b itself.   *)
linspace(a, b, n, j) ==
  IF j = n - 1 THEN b ELSE a + j * ((b - a) \div (n - 1))

(* for j in range(1, n_steps): T_temp += lapse(T_temp, p_range[j-1]) * dp  *)
RECURSIVE moist_steps(_, _, _, _, _)
moist_steps(T_temp, p_from, p_to, n_steps, j) ==
  IF j >= n_steps THEN T_temp
  ELSE LET p0 == linspace(p_from, p_to, n_steps, j - 1)
           dp == linspace(p_from, p_to, n_steps, j) - p0
           dT_dp == moist_adiabatic_lapse_rate(T_temp, p0)
       IN  moist_steps(T_temp + FMul(dT_dp, dp), p_from, p_to, n_steps, j + 1)

(* Td_start = 243.5 * L / (17.67 - L), L = ln(e_start / 6.112)             *)
dewpoint_from_log(L) == FDiv(FMul(243500000, L), 17670000 - L)

lcl_from_vapor_at_start(T_start_K, p_start_hPa, e_start) ==
  IF e_start > 0
  THEN lcl_pressure(T_start_K,
                    dewpoint_from_log(Ln(FDiv(e_start, 6112000))) + ZERO_C,
                    p_start_hPa)
  ELSE p_start_hPa

lcl_from_vapor(T_start_K, p_start_hPa, e_start) ==
  IF e_start > 0
  THEN lcl_pressure(T_start_K,
                    dewpoint_from_log(Ln(FDiv(e_start, 6112000))) + ZERO_C,
                    p_start_hPa)
  ELSE p_start_hPa \div 2

(* The LCL of the starting parcel (lift_parcel, first half):               *)
(* e_start = min(q p / (eps + q), es(T)).                                  *)
parcel_lcl(T_start_K, p_start_hPa, q_start) ==
  lcl_from_vapor(T_start_K, p_start_hPa,
                 Min(FDiv(FMul(q_start, p_start_hPa), EPSILON + q_start),
                     vapor_pressure(T_start_K - ZERO_C)))

(* The crossing branch taken for every interval that ends above the LCL.   *)
regime_crossing_above(p_lower, p_upper, p_lcl) ==
  IF p_lower >= p_lcl /\ p_upper >= p_lcl THEN "dry"
  ELSE IF p_upper < p_lcl THEN "crossing"
  ELSE "moist"

(* The branch of lift_parcel's if / elif / else taken for one interval.    *)
regime(p_lower, p_upper, p_lcl) ==
  IF p_lower >= p_lcl /\ p_upper >= p_lcl THEN "dry"
  ELSE IF p_lower >= p_lcl /\ p_upper < p_lcl THEN "crossing"
  ELSE "moist"

(* The temperature after one interval in the branch r.                     *)
regime_step(r, T_prev, p_lower, p_upper, p_lcl) ==
  IF r = "dry"
  THEN FMul(T_prev, Pow(FDiv(p_upper, p_lower), RD_CP))
  ELSE IF r = "crossing"
  THEN LET T_at_lcl == FMul(T_prev, Pow(FDiv(p_lcl, p_lower), RD_CP))
       IN  moist_steps(T_at_lcl, p_lcl, p_upper, 10, 1)
  ELSE moist_steps(T_prev, p_lower, p_upper, 5, 1)

(* One grid interval of lift_parcel: dry, LCL crossing, or moist.          *)
lift_step(T_prev, p_lower, p_upper, p_lcl) ==
  regime_step(regime(p_lower, p_upper, p_lcl), T_prev, p_lower, p_upper, p_lcl)

RECURSIVE lift_levels(_, _, _)
lift_levels(T_parcel, p_levels_hPa, p_lcl) ==
  LET i == Len(T_parcel)
  IN  IF i >= Len(p_levels_hPa) THEN T_parcel
      ELSE lift_levels(
             Append(T_parcel,
                    lift_step(At(T_parcel, i - 1), At(p_levels_hPa, i - 1),
                              At(p_levels_hPa, i), p_lcl)),
             p_levels_hPa, p_lcl)

lift_from(T_start_K, p_levels_hPa, p_lcl) ==
  [T_parcel |-> lift_levels(<<T_start_K>>, p_levels_hPa, p_lcl), p_lcl |-> p_lcl]

(* lift_parcel: returns (T_parcel[], p_lcl).                               *)
lift_parcel(T_start_K, p_start_hPa, q_start, p_levels_hPa) ==
  lift_from(T_start_K, p_levels_hPa, parcel_lcl(T_start_K, p_start_hPa, q_start))

---------------------------------------------------------------------------
(* Buoyancy integration.                                                   *)

MinOf(S) == CHOOSE m \in S : \A k \in S : m <= k

(* buoyancy[i] = Tv_parcel[i] - Tv_env[i]; the parcel is saturated at and  *)
(* above the LCL (p_env[i] <= p_lcl) and keeps its own moisture below.     *)
buoyancy_at(T_parcel, p_env, T_env, RH_env, q_parcel_surface, p_lcl, i) ==
  LET es_env == vapor_pressure(At(T_env, i) - ZERO_C)
      e_env  == FMul(es_env, At(RH_env, i))
      q_env  == mixing_ratio(e_env, At(p_env, i))
      Tv_env == virtual_temperature(At(T_env, i), q_env)
      q_parcel == IF At(p_env, i) <= p_lcl
                  THEN mixing_ratio(vapor_pressure(At(T_parcel, i) - ZERO_C),
                                    At(p_env, i))
                  ELSE q_parcel_surface
      Tv_parcel == virtual_temperature(At(T_parcel, i), q_parcel)
  IN  Tv_parcel - Tv_env

RECURSIVE buoyancy_profile(_, _, _, _, _, _, _)
buoyancy_profile(T_parcel, p_env, T_env, RH_env, q_parcel_surface, p_lcl, acc) ==
  IF Len(acc) >= Len(p_env) THEN acc
  ELSE buoyancy_profile(T_parcel, p_env, T_env, RH_env, q_parcel_surface, p_lcl,
         Append(acc, buoyancy_at(T_parcel, p_env, T_env, RH_env,
                                 q_parcel_surface, p_lcl, Len(acc))))

(* lcl_idx: the first grid level at or above the LCL, 0 when there is none. *)
find_lcl_idx(p_env, p_lcl) ==
  LET S == {i \in 0..(Len(p_env) - 1) : At(p_env, i) <= p_lcl}
  IN  IF S = {} THEN 0 ELSE MinOf(S)

(* The LFC search started at index 1 whatever the LCL index.               *)
find_lfc_idx_from_surface(buoyancy, lcl_idx) ==
  LET S == {i \in 1..(Len(buoyancy) - 1) :
              At(buoyancy, i) > 0 /\ At(buoyancy, i - 1) <= 0}
  IN  IF S = {} THEN None ELSE MinOf(S)

(* lfc_idx: first i >= max(1, lcl_idx) with buoyancy[i] > 0 >= buoyancy[i-1]. *)
find_lfc_idx(buoyancy, lcl_idx) ==
  LET S == {i \in Max(1, lcl_idx)..(Len(buoyancy) - 1) :
              At(buoyancy, i) > 0 /\ At(buoyancy, i - 1) <= 0}
  IN  IF S = {} THEN None ELSE MinOf(S)

(* The EL search run whether or not an LFC was found.                      *)
find_el_idx_unguarded(buoyancy, lfc_idx) ==
  LET S == {i \in (lfc_idx + 1)..(Len(buoyancy) - 1) : At(buoyancy, i) < 0}
  IN  IF S = {} THEN Len(buoyancy) - 1 ELSE MinOf(S)

(* The EL put at the top level whatever the buoyancy above the LFC.        *)
find_el_idx_top(buoyancy, lfc_idx) ==
  IF lfc_idx = None THEN None ELSE Len(buoyancy) - 1

(* el_idx: first i > lfc_idx with buoyancy[i] < 0, else the top level.     *)
find_el_idx(buoyancy, lfc_idx) ==
  IF lfc_idx = None THEN None
  ELSE LET S == {i \in (lfc_idx + 1)..(Len(buoyancy) - 1) : At(buoyancy, i) < 0}
       IN  IF S = {} THEN Len(buoyancy) - 1 ELSE MinOf(S)

(* One layer of the integral, g * (buoy_avg / Tv_avg) * dz with            *)
(* dz = (Rd * Tv_avg / g) * ln(p[i-1] / p[i]): g and Tv_avg cancel, leaving *)
(* Rd * buoy_avg * ln(p[i-1] / p[i]).  In J/kg times 10^3.                 *)
layer_energy(buoyancy, p_env, i) ==
  FMul(RD_MILLI,
       FMul(At(buoyancy, i) + At(buoyancy, i - 1),
            Ln(FDiv(At(p_env, i - 1), At(p_env, i))))) \div 2

(* for i in range(1, lfc_idx): if buoyancy[i] < 0: cin += layer            *)
RECURSIVE integrate_cin(_, _, _, _)
integrate_cin(buoyancy, p_env, lfc_idx, i) ==
  IF i >= lfc_idx THEN 0
  ELSE (IF At(buoyancy, i) < 0 THEN layer_energy(buoyancy, p_env, i) ELSE 0)
       + integrate_cin(buoyancy, p_env, lfc_idx, i + 1)

(* The layer summed whatever its sign.                                     *)
cape_layer_unguarded(buoyancy, p_env, i) == layer_energy(buoyancy, p_env, i)

(* for i in range(lfc_idx + 1, el_idx + 1):                                *)
(*   if buoyancy[i] > 0 or buoyancy[i-1] > 0: if buoy_avg > 0: cape += layer *)
cape_layer(buoyancy, p_env, i) ==
  IF (At(buoyancy, i) > 0 \/ At(buoyancy, i - 1) > 0)
     /\ At(buoyancy, i) + At(buoyancy, i - 1) > 0
  THEN layer_energy(buoyancy, p_env, i)
  ELSE 0

RECURSIVE integrate_cape(_, _, _, _)
integrate_cape(buoyancy, p_env, el_idx, i) ==
  IF i > el_idx THEN 0
  ELSE cape_layer(buoyancy, p_env, i)
       + integrate_cape(buoyancy, p_env, el_idx, i + 1)

(* CIN summed over the whole column when there is no LFC.                  *)
cape_result_cin_always(p_env, buoyancy, lfc_idx, el_idx) ==
  [sbcape |-> IF lfc_idx = None THEN 0
              ELSE integrate_cape(buoyancy, p_env, el_idx, lfc_idx + 1),
   cin    |-> integrate_cin(buoyancy, p_env,
                            IF lfc_idx = None THEN Len(buoyancy) ELSE lfc_idx, 1),
   lfc_idx |-> lfc_idx,
   el_idx  |-> el_idx,
   lfc_pressure |-> IF lfc_idx = None THEN None ELSE At(p_env, lfc_idx),
   el_pressure  |-> IF el_idx = None THEN None ELSE At(p_env, el_idx),
   buoyancy |-> buoyancy]

(* The dictionary returned.                                                *)
cape_result(p_env, buoyancy, lfc_idx, el_idx) ==
  [sbcape |-> IF lfc_idx = None THEN 0
              ELSE integrate_cape(buoyancy, p_env, el_idx, lfc_idx + 1),
   cin    |-> IF lfc_idx = None THEN 0
              ELSE integrate_cin(buoyancy, p_env, lfc_idx, 1),
   lfc_idx |-> lfc_idx,
   el_idx  |-> el_idx,
   lfc_pressure |-> IF lfc_idx = None THEN None ELSE At(p_env, lfc_idx),
   el_pressure  |-> IF el_idx = None THEN None ELSE At(p_env, el_idx),
   buoyancy |-> buoyancy]

cape_above_lfc(p_env, buoyancy, lfc_idx) ==
  cape_result(p_env, buoyancy, lfc_idx, find_el_idx(buoyancy, lfc_idx))

cape_from_buoyancy(p_env, buoyancy, lcl_idx) ==
  cape_above_lfc(p_env, buoyancy, find_lfc_idx(buoyancy, lcl_idx))

calcola_cape_from_profile(T_parcel, p_env, T_env, RH_env, q_parcel_surface, p_lcl) ==
  cape_from_buoyancy(p_env,
                     buoyancy_profile(T_parcel, p_env, T_env, RH_env,
                                      q_parcel_surface, p_lcl, << >>),
                     find_lcl_idx(p_env, p_lcl))

---------------------------------------------------------------------------
(* Inputs of one evaluation.                                               *)
(*   data:    the Open-Meteo payload; hourly series per pressure level,    *)
(*            temperatures in degC, humidity in percent, Null for a JSON   *)
(*            null; an absent key and an empty list are both << >>.        *)
(*   station: the station observation, or NoStation.                       *)
(*   clock:   the index of the entry of hourly["time"] that matches the    *)
(*            current UTC hour (0 when none does).                         *)

pressure_levels == <<1000, 950, 925, 900, 850, 800, 750, 700, 650, 600, 550, 500>>
LevelSet == {pressure_levels[k] : k \in 1..Len(pressure_levels)}

ELEVATION == 100

NoData    == [absent |-> TRUE]
NoStation == [absent |-> TRUE]
NoResult  == [absent |-> TRUE]

NotInvoked == [invoked |-> FALSE]

NoAlert == [absent |-> TRUE]

VARIABLES
  data, station, clock,            \* inputs
  pc,                              \* position in calcola_sbcape_advanced
  current_hour_idx,
  surface,                         \* T_surface_C, Td_surface_C, p_surface, ...
  p_env, T_env, RH_env,            \* the profile (lists, then sorted arrays)
  p_fine, T_fine, RH_fine,         \* the grid the parcel is lifted through
  T_parcel_sb, p_lcl_sb, result_sb,
  p_idx, max_cape, mu_result,      \* the loop of calcola_mucape
  results,                         \* the value returned
  scorer_in,                       \* the arguments of the two scorers
  severe,                          \* calcola_severe_score's return value
  convective_risk,                 \* valuta_instabilita_convettiva's
  earlier,                         \* what the previous invocation returned
  now,                             \* minutes on the wall clock (send_monitors)
  omirl_state,                     \* omirl_state.json
  omirl_previous,                  \* omirl_state.json before the last mark_sent
  m_pc,                            \* position in send_monitors.main
  force,                           \* "--force" in sys.argv
  fulmini_result, omirl_result,    \* what the two run_analysis returned
  delivered,                       \* the monitors whose alert reached a chat
  marked                           \* the monitors main called mark_sent for

vars == <<data, station, clock, pc, current_hour_idx, surface, p_env, T_env,
          RH_env, p_fine, T_fine, RH_fine, T_parcel_sb, p_lcl_sb, result_sb,
          p_idx, max_cape, mu_result, results, scorer_in, severe,
          convective_risk, earlier, now, omirl_state, omirl_previous, m_pc,
          force, fulmini_result, omirl_result, delivered, marked>>

engine == <<data, station, clock, pc, current_hour_idx, surface, p_env, T_env,
            RH_env, p_fine, T_fine, RH_fine, T_parcel_sb, p_lcl_sb, result_sb,
            p_idx, max_cape, mu_result, results, earlier>>

scorer == <<scorer_in, severe, convective_risk>>

monitors == <<now, omirl_state, omirl_previous, m_pc, force, fulmini_result,
              omirl_result, delivered, marked>>

(* what the steps of one invocation leave alone: its arguments, the wall   *)
(* clock and the record of the previous invocation                         *)
inputs == <<data, station, clock, earlier>>

---------------------------------------------------------------------------
(* send_monitors.main and monitor_omirl: the rain monitor, its state file  *)
(* and the unified dispatch.  Rain in mm/h, time in minutes.               *)

OMIRL_RAIN_TRIGGER == 6

ARPAL_RAIN_1H_GIALLO == 15

ARPAL_RAIN_1H_ARANCIONE == 30

ARPAL_RAIN_1H_ROSSO == 50

(* timedelta(minutes=50) in should_send                                    *)
RESEND_MINUTES == 50

(* "cron ogni 10-15 min": the time between two runs                        *)
CRON_MINUTES == 10

MaxMinutes == 60

MaxChats == 2

LISTA_CHAT == 1..MaxChats

Monitors == {"fulmini", "omirl"}

arpal_level(value_mm) ==
  IF value_mm >= ARPAL_RAIN_1H_ROSSO THEN "Rosso"
  ELSE IF value_mm >= ARPAL_RAIN_1H_ARANCIONE THEN "Arancione"
  ELSE IF value_mm >= ARPAL_RAIN_1H_GIALLO THEN "Giallo"
  ELSE "Verde"

(* should_send(state, exceeding, force), curr_max being exceeding[0]["last"] *)
should_send(state, curr_max, frc, t) ==
  IF frc THEN TRUE
  ELSE IF /\ state.last_send_ts # None
          /\ t - state.last_send_ts < RESEND_MINUTES
          /\ arpal_level(curr_max) = arpal_level(state.max_rain_mm)
       THEN FALSE
       ELSE TRUE

(* monitor_omirl.run_analysis: None when no station reaches the trigger or *)
(* should_send says no, else the alert with the radar image if there is    *)
(* one; rain is the greatest reading of the district.                      *)
run_analysis(rain, image, frc, state, t) ==
  IF rain < OMIRL_RAIN_TRIGGER THEN NoAlert
  ELSE IF ~should_send(state, rain, frc, t) THEN NoAlert
  ELSE [image |-> image, exceeding |-> rain]

(* monitor_omirl.mark_sent                                                 *)
mark_sent(state, result, t) ==
  [state EXCEPT !.status = "alert", !.last_send_ts = t,
                !.max_rain_mm = result.exceeding]

result_of(name, omirl, fulmini) == IF name = "omirl" THEN omirl ELSE fulmini

(* What dispatch_results delivers to one chat: the album when there are    *)
(* two photos and it goes through, else every photo on its own, then the   *)
(* texts.  album_ok and item_ok are what Telegram answers.                 *)
delivered_to(photo_items, text_only, album_ok, item_ok) ==
  (IF Cardinality(photo_items) >= 2 /\ album_ok
   THEN photo_items
   ELSE {name \in photo_items : item_ok[name]})
  \cup {name \in text_only : item_ok[name]}

(* dispatch_results: the monitors whose alert reached at least one chat;   *)
(* the value returned, any_success, is that this set is not empty.         *)
dispatch_results(omirl, fulmini, album_ok, item_ok) ==
  LET alerts == {name \in Monitors : result_of(name, omirl, fulmini) # NoAlert}
      photo_items == {name \in alerts : result_of(name, omirl, fulmini).image}
  IN  UNION {delivered_to(photo_items, alerts \ photo_items,
                          album_ok[chat_id], item_ok[chat_id]) :
               chat_id \in LISTA_CHAT}

(* no state file, no run yet                                               *)
MonitorsIdle ==
  /\ now = 0
  /\ omirl_state = [status |-> "ok", last_send_ts |-> None, max_rain_mm |-> 0]
  /\ omirl_previous = omirl_state
  /\ m_pc = "idle"
  /\ force = FALSE
  /\ fulmini_result = NoAlert /\ omirl_result = NoAlert
  /\ delivered = {} /\ marked = {}

(* the greatest reading of the district in one run                         *)
RainReadings == {0, 8, 20, 35}

(* what monitor_fulmini.run_analysis returns: nothing, or an alert with or *)
(* without its image                                                       *)
FulminiResults == {NoAlert, [image |-> TRUE], [image |-> FALSE]}

(* main, steps 1 to 3: the two analyses; return when neither has an alert. *)
Analyse ==
  /\ m_pc = "idle"
  /\ \E frc \in BOOLEAN, fulmini \in FulminiResults, rain \in RainReadings,
        image \in BOOLEAN :
       /\ force' = frc
       /\ fulmini_result' = fulmini
       /\ omirl_result' = run_analysis(rain, image, frc, omirl_state, now)
       /\ m_pc' = IF fulmini = NoAlert /\ omirl_result' = NoAlert
                  THEN "done" ELSE "dispatch"
  /\ delivered' = {} /\ marked' = {}
  /\ UNCHANGED <<engine, scorer, now, omirl_state, omirl_previous>>

(* main, step 4: success = dispatch_results(omirl_result, fulmini_result)   *)
Dispatch ==
  /\ m_pc = "dispatch"
  /\ \E album_ok \in [LISTA_CHAT -> BOOLEAN],
        item_ok \in [LISTA_CHAT -> [Monitors -> BOOLEAN]] :
       delivered' = dispatch_results(omirl_result, fulmini_result, album_ok, item_ok)
  /\ m_pc' = "sent"
  /\ UNCHANGED <<engine, scorer, now, omirl_state, omirl_previous, force,
                 fulmini_result, omirl_result, marked>>

(* main, step 5: if success, mark_sent for every monitor with a result.    *)
MarkSent ==
  /\ m_pc = "sent"
  /\ IF delivered # {}
     THEN /\ marked' = {name \in Monitors :
                          result_of(name, omirl_result, fulmini_result) # NoAlert}
          /\ IF omirl_result # NoAlert
             THEN /\ omirl_state' = mark_sent(omirl_state, omirl_result, now)
                  /\ omirl_previous' = omirl_state
             ELSE UNCHANGED <<omirl_state, omirl_previous>>
     ELSE UNCHANGED <<marked, omirl_state, omirl_previous>>
  /\ m_pc' = "done"
  /\ UNCHANGED <<engine, scorer, now, force, fulmini_result, omirl_result, delivered>>

(* the time until cron starts the next run                                 *)
Tick ==
  /\ m_pc = "done"
  /\ now + CRON_MINUTES <= MaxMinutes
  /\ now' = now + CRON_MINUTES
  /\ m_pc' = "idle"
  /\ UNCHANGED <<engine, scorer, omirl_state, omirl_previous, force,
                 fulmini_result, omirl_result, delivered, marked>>

---------------------------------------------------------------------------
(* calcola_sbcape_advanced, stage by stage.                                *)

(* An exception anywhere in the body is caught and None is returned.       *)
ReturnNone ==
  /\ pc' = "done"
  /\ results' = NoResult

usable(series, idx) == Len(series) > 0 /\ Len(series) > idx

(* Lines 910-933: the hour of the sample; when temperature_850hPa is null  *)
(* at that hour, the latest earlier hour where it is not.                  *)
select_hour(d, idx0) ==
  LET t850 == d.temperature[850]
  IN  IF usable(t850, idx0) /\ At(t850, idx0) = Null
      THEN LET S == {i \in 0..idx0 : At(t850, i) # Null}
           IN  IF S = {} THEN idx0 ELSE CHOOSE m \in S : \A k \in S : k <= m
      ELSE idx0

SelectHour ==
  /\ pc = "start"
  /\ IF data = NoData
     THEN ReturnNone /\ UNCHANGED current_hour_idx
     ELSE /\ current_hour_idx' = select_hour(data, clock)
          /\ pc' = "hour"
          /\ UNCHANGED results
  /\ UNCHANGED <<inputs, scorer, monitors, surface, p_env, T_env, RH_env, p_fine, T_fine, RH_fine,
                 T_parcel_sb, p_lcl_sb, result_sb, p_idx, max_cape, mu_result>>

(* Lines 936-964: the surface parcel, from the station when there is one,  *)
(* else from the model's "current" block reduced to ELEVATION.             *)
station_surface(st) ==
  [T_surface_C |-> st.temperature, Td_surface_C |-> st.dewpoint,
   p_surface |-> st.pressure, RH_surface |-> FDiv(st.humidity, 100 * ONE),
   T_surface_K |-> st.temperature + ZERO_C,
   q_surface |-> dewpoint_to_mixing_ratio(st.dewpoint, st.pressure)]

(* p_msl * (1 - 0.0065 * ELEVATION / T_surface_K) ** 5.255                 *)
station_level_pressure(p_msl, T_surface_K) ==
  FMul(p_msl, Pow(ONE - FDiv(6500 * ELEVATION, T_surface_K), 5255000))

model_surface_at(cur, p_surface) ==
  [T_surface_C |-> cur.temperature_2m, Td_surface_C |-> cur.dew_point_2m,
   p_surface |-> p_surface,
   RH_surface |-> FDiv(cur.relative_humidity_2m, 100 * ONE),
   T_surface_K |-> cur.temperature_2m + ZERO_C,
   q_surface |-> IF cur.dew_point_2m # Null
                 THEN dewpoint_to_mixing_ratio(cur.dew_point_2m, p_surface)
                 ELSE mixing_ratio(FMul(vapor_pressure(cur.temperature_2m),
                                        FDiv(cur.relative_humidity_2m, 100 * ONE)),
                                   p_surface)]

model_surface(cur) ==
  model_surface_at(cur, station_level_pressure(cur.pressure_msl,
                                               cur.temperature_2m + ZERO_C))

Surface ==
  /\ pc = "hour"
  /\ IF station # NoStation
     THEN surface' = station_surface(station) /\ pc' = "surface" /\ UNCHANGED results
     ELSE IF data.current.temperature_2m = Null
     THEN ReturnNone /\ UNCHANGED surface
     ELSE surface' = model_surface(data.current) /\ pc' = "surface" /\ UNCHANGED results
  /\ UNCHANGED <<inputs, scorer, monitors, current_hour_idx, p_env, T_env, RH_env, p_fine, T_fine,
                 RH_fine, T_parcel_sb, p_lcl_sb, result_sb, p_idx, max_cape, mu_result>>

(* The level taken whatever its pressure.                                  *)
level_eligible_any_pressure(d, idx, p_surface, p_level) ==
  usable(d.temperature[p_level], idx)

(* Lines 967-989: the forecast levels that enter the profile.              *)
level_eligible(d, idx, p_surface, p_level) ==
  usable(d.temperature[p_level], idx) /\ p_level * ONE <= p_surface

rh_usable(d, idx, p_level) == usable(d.relative_humidity[p_level], idx)

(* hourly[key_rh][idx] / 100 raises TypeError on a null sample.            *)
rh_raises(d, idx, p_surface, p_level) ==
  /\ level_eligible(d, idx, p_surface, p_level)
  /\ rh_usable(d, idx, p_level)
  /\ At(d.relative_humidity[p_level], idx) = Null

level_RH(d, idx, p_level) ==
  IF rh_usable(d, idx, p_level)
  THEN FDiv(At(d.relative_humidity[p_level], idx), 100 * ONE)
  ELSE IF p_level > 500 THEN 500000 ELSE 300000

level_included(d, idx, p_surface, p_level) ==
  /\ level_eligible(d, idx, p_surface, p_level)
  /\ At(d.temperature[p_level], idx) # Null

RECURSIVE build_lists(_, _, _, _, _)
build_lists(d, idx, p_surface, k, acc) ==
  IF k > Len(pressure_levels) THEN acc
  ELSE LET p_level == pressure_levels[k]
       IN  IF level_included(d, idx, p_surface, p_level)
           THEN build_lists(d, idx, p_surface, k + 1,
                  [p  |-> Append(acc.p, p_level * ONE),
                   T  |-> Append(acc.T, At(d.temperature[p_level], idx) + ZERO_C),
                   RH |-> Append(acc.RH, level_RH(d, idx, p_level))])
           ELSE build_lists(d, idx, p_surface, k + 1, acc)

(* The profile accepted from two levels on.                                *)
insufficient_below_two(p_env_list) == Len(p_env_list) < 2

(* if len(p_env_list) < 3: return None                                     *)
insufficient(p_env_list) == Len(p_env_list) < 3

BuildProfile ==
  /\ pc = "surface"
  /\ LET lists == build_lists(data, current_hour_idx, surface.p_surface, 1,
                    [p |-> <<surface.p_surface>>, T |-> <<surface.T_surface_K>>,
                     RH |-> <<surface.RH_surface>>])
     IN  IF \E k \in 1..Len(pressure_levels) :
               rh_raises(data, current_hour_idx, surface.p_surface, pressure_levels[k])
         THEN ReturnNone /\ UNCHANGED <<p_env, T_env, RH_env>>
         ELSE /\ p_env' = lists.p
              /\ T_env' = lists.T
              /\ RH_env' = lists.RH
              /\ IF insufficient(lists.p) THEN ReturnNone
                 ELSE pc' = "profile" /\ UNCHANGED results
  /\ UNCHANGED <<inputs, scorer, monitors, current_hour_idx, surface, p_fine, T_fine, RH_fine,
                 T_parcel_sb, p_lcl_sb, result_sb, p_idx, max_cape, mu_result>>

(* Lines 991-998: sort_idx = np.argsort(p_env)[::-1].  The default sort is *)
(* not stable, so equal pressures may come out in either order.            *)
descending(p, perm) ==
  \A i \in 1..(Len(p) - 1) : p[perm[i]] >= p[perm[i + 1]]

SortProfile ==
  /\ pc = "profile"
  /\ \E sort_idx \in Permutations(1..Len(p_env)) :
       /\ descending(p_env, sort_idx)
       /\ p_env' = [i \in 1..Len(p_env) |-> p_env[sort_idx[i]]]
       /\ T_env' = [i \in 1..Len(p_env) |-> T_env[sort_idx[i]]]
       /\ RH_env' = [i \in 1..Len(p_env) |-> RH_env[sort_idx[i]]]
  /\ pc' = "sorted"
  /\ UNCHANGED <<inputs, scorer, monitors, current_hour_idx, surface, p_fine, T_fine, RH_fine,
                 T_parcel_sb, p_lcl_sb, result_sb, p_idx, max_cape, mu_result,
                 results>>

(* Lines 1000-1014: the 10 hPa grid and the profile resampled onto it.      *)

(* The grid laid out every 50 hPa.                                         *)
arange_down_coarse(p_start, p_stop) ==
  LET n == IF p_start > p_stop
           THEN (p_start - p_stop + 50 * ONE - 1) \div (50 * ONE) ELSE 0
  IN  [j \in 1..n |-> p_start - (j - 1) * 50 * ONE]

(* np.arange(p_surface, p_min, -10)                                        *)
arange_down(p_start, p_stop) ==
  LET n == IF p_start > p_stop
           THEN (p_start - p_stop + 10 * ONE - 1) \div (10 * ONE) ELSE 0
  IN  [j \in 1..n |-> p_start - (j - 1) * 10 * ONE]

Reverse(s) == [i \in 1..Len(s) |-> s[Len(s) + 1 - i]]

has_duplicates(xs) == \E i, j \in 1..Len(xs) : i < j /\ xs[i] = xs[j]

(* interp1d(kind='cubic') is the not-a-knot spline; through four nodes it  *)
(* is the cubic through them, evaluated here in Lagrange form around the   *)
(* first ordinate.  The forecasts of this model carry at most three usable *)
(* levels, so a resampled profile has exactly four nodes.                  *)
RECURSIVE lagrange_term(_, _, _, _, _)
lagrange_term(xs, i, x, j, t) ==
  IF j > Len(xs) THEN t
  ELSE IF j = i THEN lagrange_term(xs, i, x, j + 1, t)
  ELSE lagrange_term(xs, i, x, j + 1,
                     FMul(t, FDiv(x - xs[j], xs[i] - xs[j])))

RECURSIVE lagrange_sum(_, _, _, _)
lagrange_sum(xs, ys, x, i) ==
  IF i > Len(xs) THEN 0
  ELSE lagrange_term(xs, i, x, 1, ys[i] - ys[1]) + lagrange_sum(xs, ys, x, i + 1)

cubic_interp(xs, ys, x) == ys[1] + lagrange_sum(xs, ys, x, 2)

(* interp1d(kind='linear', fill_value='extrapolate'), xs ascending.        *)
linear_interp(xs, ys, x) ==
  LET S == {k \in 1..(Len(xs) - 1) : k = 1 \/ x > xs[k]}
      k == CHOOSE m \in S : \A o \in S : o <= m
  IN  ys[k] + FMul(ys[k + 1] - ys[k], FDiv(x - xs[k], xs[k + 1] - xs[k]))

(* np.clip(v, lo, hi)                                                      *)
clip(v, lo, hi) == Min(Max(v, lo), hi)

Interpolate ==
  /\ pc = "sorted"
  /\ LET p_min == Max(200 * ONE, p_env[Len(p_env)])
         grid  == arange_down(surface.p_surface, p_min)
         xs    == Reverse(p_env)
     IN  IF Len(p_env) >= 4
         THEN IF has_duplicates(p_env)
              THEN \* make_interp_spline: "Expect x to not have duplicates"
                   ReturnNone /\ UNCHANGED <<p_fine, T_fine, RH_fine>>
              ELSE /\ p_fine' = grid
                   /\ T_fine' = [j \in 1..Len(grid) |->
                                   cubic_interp(xs, Reverse(T_env), grid[j])]
                   /\ RH_fine' = [j \in 1..Len(grid) |->
                                   clip(linear_interp(xs, Reverse(RH_env), grid[j]),
                                        50000, ONE)]
                   /\ pc' = "grid"
                   /\ UNCHANGED results
         ELSE /\ p_fine' = p_env
              /\ T_fine' = T_env
              /\ RH_fine' = RH_env
              /\ pc' = "grid"
              /\ UNCHANGED results
  /\ UNCHANGED <<inputs, scorer, monitors, current_hour_idx, surface, p_env, T_env, RH_env,
                 T_parcel_sb, p_lcl_sb, result_sb, p_idx, max_cape, mu_result>>

(* Line 1019: the surface parcel lifted through the grid.                  *)
store_lift(lifted) ==
  /\ T_parcel_sb' = lifted.T_parcel
  /\ p_lcl_sb' = lifted.p_lcl

LiftSurface ==
  /\ pc = "grid"
  /\ store_lift(lift_parcel(surface.T_surface_K, surface.p_surface,
                            surface.q_surface, p_fine))
  /\ pc' = "lifted"
  /\ UNCHANGED <<inputs, scorer, monitors, current_hour_idx, surface, p_env, T_env, RH_env, p_fine,
                 T_fine, RH_fine, result_sb, p_idx, max_cape, mu_result, results>>

(* Line 1020: SBCAPE; then calcola_mucape starts (lines 838-843).          *)
CapeSurface ==
  /\ pc = "lifted"
  /\ result_sb' = calcola_cape_from_profile(T_parcel_sb, p_fine, T_fine, RH_fine,
                                            surface.q_surface, p_lcl_sb)
  /\ pc' = "mu"
  /\ p_idx' = 0
  /\ max_cape' = 0
  /\ mu_result' = NoResult
  /\ UNCHANGED <<inputs, scorer, monitors, current_hour_idx, surface, p_env, T_env, RH_env, p_fine,
                 T_fine, RH_fine, T_parcel_sb, p_lcl_sb, results>>

(* calcola_mucape, lines 845-867: one candidate level per step.            *)
mu_lifted(T_e, p_e, RH_e, i, q_test, lifted) ==
  calcola_cape_from_profile(lifted.T_parcel, SliceFrom(p_e, i), SliceFrom(T_e, i),
                            SliceFrom(RH_e, i), q_test, lifted.p_lcl)
  @@ [mu_level |-> At(p_e, i)]

mu_parcel(T_e, p_e, RH_e, i, q_test) ==
  mu_lifted(T_e, p_e, RH_e, i, q_test,
            lift_parcel(At(T_e, i), At(p_e, i), q_test, SliceFrom(p_e, i)))

mu_candidate(T_e, p_e, RH_e, i) ==
  mu_parcel(T_e, p_e, RH_e, i,
            mixing_ratio(FMul(vapor_pressure(At(T_e, i) - ZERO_C), At(RH_e, i)),
                         At(p_e, i)))

mu_in_window ==
  /\ station # NoStation
  /\ p_idx < Len(p_fine)
  /\ At(p_fine, p_idx) >= station.pressure - 300 * ONE

(* Every candidate with CAPE kept, the last one remaining.                 *)
mu_keep_latest(result_mu) ==
  IF result_mu.sbcape > 0
  THEN max_cape' = result_mu.sbcape /\ mu_result' = result_mu
  ELSE UNCHANGED <<max_cape, mu_result>>

(* A candidate kept also when it only equals the maximum so far.           *)
mu_keep_ties(result_mu) ==
  IF result_mu.sbcape >= max_cape
  THEN max_cape' = result_mu.sbcape /\ mu_result' = result_mu
  ELSE UNCHANGED <<max_cape, mu_result>>

(* if result_mu['sbcape'] > max_cape: keep it                              *)
mu_keep(result_mu) ==
  IF result_mu.sbcape > max_cape
  THEN max_cape' = result_mu.sbcape /\ mu_result' = result_mu
  ELSE UNCHANGED <<max_cape, mu_result>>

MuStep ==
  /\ pc = "mu"
  /\ mu_in_window
  /\ mu_keep(mu_candidate(T_fine, p_fine, RH_fine, p_idx))
  /\ p_idx' = p_idx + 1
  /\ UNCHANGED <<inputs, scorer, monitors, pc, current_hour_idx, surface, p_env, T_env, RH_env,
                 p_fine, T_fine, RH_fine, T_parcel_sb, p_lcl_sb, result_sb, results>>

(* station_data is None, the window is left, or the profile is exhausted.  *)
MuDone ==
  /\ pc = "mu"
  /\ ~mu_in_window
  /\ pc' = "finish"
  /\ UNCHANGED <<inputs, scorer, monitors, current_hour_idx, surface, p_env, T_env, RH_env, p_fine,
                 T_fine, RH_fine, T_parcel_sb, p_lcl_sb, result_sb, p_idx,
                 max_cape, mu_result, results>>

(* calcola_wind_shear: |u_120m - u_surface| in m/s, None on any exception  *)
(* (a series too short for the hour, a null sample).                       *)
calcola_wind_shear(d, idx, st) ==
  LET w120 == d.windspeed_120m
      w10  == d.windspeed_10m
      surface_fails == st = NoStation /\ Len(w10) > 0
                       /\ (idx >= Len(w10) \/ At(w10, idx) = Null)
      upper_fails   == Len(w120) > 0 /\ (idx >= Len(w120) \/ At(w120, idx) = Null)
      u_surface == IF st # NoStation THEN FDiv(st.wind_speed, 3600000)
                   ELSE IF Len(w10) > 0 THEN FDiv(At(w10, idx), 3600000) ELSE 0
      u_120m    == IF Len(w120) > 0 THEN FDiv(At(w120, idx), 3600000) ELSE 0
  IN  IF surface_fails \/ upper_fails THEN None ELSE Abs(u_120m - u_surface)

(* round(x, n): to the nearest multiple of unit.                           *)
Round(x, unit) == ((x + unit \div 2) \div unit) * unit

(* Lines 1030-1035: environment minus parcel at the first level within     *)
(* 15 hPa of 500 hPa, 0 when there is none.                                *)
lifted_index(p_e, T_e, T_p) ==
  LET S == {i \in 0..(Len(p_e) - 1) : Abs(At(p_e, i) - 500 * ONE) < 15 * ONE}
  IN  IF S = {} THEN 0 ELSE At(T_e, MinOf(S)) - At(T_p, MinOf(S))

(* _validate_sbcape_results: advisory warnings, in order.                  *)
validate_sbcape_results(res, T_surface_C) ==
  (IF res.sbcape > 6000 * 1000 THEN <<"sbcape_high">> ELSE << >>)
  \o (IF res.sbcape > 1500 * 1000 /\ T_surface_C < 10 * ONE
      THEN <<"cape_cold">> ELSE << >>)
  \o (IF res.cin < 0 - 500 * 1000 THEN <<"cin_strong">> ELSE << >>)

(* if warnings: results['warnings'] = warnings                             *)
with_warnings(res, warnings) ==
  IF warnings = << >> THEN res ELSE res @@ [warnings |-> warnings]

(* A warning treated as a failure of the call.                             *)
validated_fatal(res, T_surface_C) ==
  IF validate_sbcape_results(res, T_surface_C) = << >> THEN res ELSE NoResult

validated(res, T_surface_C) ==
  with_warnings(res, validate_sbcape_results(res, T_surface_C))

(* Lines 1047-1072: the dictionary returned (CAPE, CIN in J/kg times 10^3). *)
result_record(shear, li) ==
  [sbcape |-> Round(Max(0, result_sb.sbcape), 10),
   mucape |-> IF mu_result # NoResult
              THEN Round(Max(0, mu_result.sbcape), 10) ELSE None,
   mu_level |-> IF mu_result # NoResult
                THEN Round(mu_result.mu_level, 100000) ELSE None,
   cin |-> Round(result_sb.cin, 10),
   lifted_index |-> Round(li, 10000),
   lcl_pressure |-> Round(p_lcl_sb, 100000),
   lfc_pressure |-> IF result_sb.lfc_pressure # None
                    THEN Round(result_sb.lfc_pressure, 100000) ELSE None,
   el_pressure |-> IF result_sb.el_pressure # None
                   THEN Round(result_sb.el_pressure, 100000) ELSE None,
   bulk_shear |-> IF shear # None THEN Round(shear, 100000) ELSE None,
   profile_levels |-> Len(p_fine),
   interpolated |-> Len(p_fine) > Len(p_env)]

Finish ==
  /\ pc = "finish"
  /\ results' = validated(result_record(
                             calcola_wind_shear(data, current_hour_idx, station),
                             lifted_index(p_fine, T_fine, T_parcel_sb)),
                           surface.T_surface_C)
  /\ pc' = "done"
  /\ UNCHANGED <<inputs, scorer, monitors, current_hour_idx, surface, p_env, T_env, RH_env, p_fine,
                 T_fine, RH_fine, T_parcel_sb, p_lcl_sb, result_sb, p_idx,
                 max_cape, mu_result>>

---------------------------------------------------------------------------
(* The inputs enumerated.                                                  *)

series_of(m, p) == IF p \in DOMAIN m THEN m[p] ELSE << >>

Hourly(hours, Tm, RHm) ==
  [time |-> hours,
   temperature |-> [p \in LevelSet |-> series_of(Tm, p)],
   relative_humidity |-> [p \in LevelSet |-> series_of(RHm, p)],
   windspeed_120m |-> [h \in 1..hours |-> 30 * ONE],
   windspeed_10m |-> [h \in 1..hours |-> 12 * ONE],
   current |-> [temperature_2m |-> 27 * ONE, relative_humidity_2m |-> 65 * ONE,
                dew_point_2m |-> 20 * ONE, pressure_msl |-> 1015 * ONE]]

(* a series with the same sample at every hour                             *)
Same(v) == <<v>>

F_inversion ==
  Hourly(1, (950 :> Same(22 * ONE)) @@ (900 :> Same(20 * ONE)) @@ (850 :> Same(8 * ONE)),
            (950 :> Same(30 * ONE)) @@ (900 :> Same(30 * ONE)) @@ (850 :> Same(30 * ONE)))

F_unstable ==
  Hourly(1, (950 :> Same(24 * ONE)) @@ (900 :> Same(20 * ONE)) @@ (850 :> Same(14 * ONE)),
            (950 :> Same(60 * ONE)) @@ (900 :> Same(60 * ONE)) @@ (850 :> Same(60 * ONE)))

F_coarse ==
  Hourly(1, (850 :> Same(12 * ONE)) @@ (700 :> Same(0)),
            (850 :> Same(50 * ONE)) @@ (700 :> Same(50 * ONE)))

(* two levels under a warm layer: the parcel is buoyant at 850 hPa only    *)
F_capped ==
  Hourly(1, (850 :> Same(16 * ONE)) @@ (700 :> Same(14 * ONE)),
            (850 :> Same(50 * ONE)) @@ (700 :> Same(50 * ONE)))

(* a column deeper than the 300 hPa of the most-unstable search            *)
F_deep ==
  Hourly(1, (950 :> Same(24 * ONE)) @@ (850 :> Same(15 * ONE)) @@ (650 :> Same(0 - 3 * ONE)),
            (950 :> Same(80 * ONE)) @@ (850 :> Same(60 * ONE)) @@ (650 :> Same(40 * ONE)))

(* a level at 1000 hPa; no humidity series at 950 hPa; a null temperature  *)
(* at 900 hPa                                                              *)
F_low ==
  Hourly(1, (1000 :> Same(27 * ONE)) @@ (950 :> Same(22 * ONE)) @@ (925 :> Same(21 * ONE))
            @@ (900 :> Same(Null)),
            (1000 :> Same(70 * ONE)) @@ (925 :> Same(40 * ONE)))

F_two ==
  Hourly(1, (1000 :> Same(26 * ONE)) @@ (850 :> Same(12 * ONE)),
            (1000 :> Same(50 * ONE)) @@ (850 :> Same(50 * ONE)))

(* a null temperature at 925 hPa                                           *)
F_null_T ==
  Hourly(1, (950 :> Same(22 * ONE)) @@ (925 :> Same(Null)) @@ (900 :> Same(18 * ONE))
            @@ (850 :> Same(12 * ONE)),
            (950 :> Same(60 * ONE)) @@ (925 :> Same(60 * ONE)) @@ (900 :> Same(60 * ONE))
            @@ (850 :> Same(60 * ONE)))

(* a null humidity at 900 hPa                                              *)
F_null_RH ==
  Hourly(1, (950 :> Same(22 * ONE)) @@ (900 :> Same(18 * ONE)),
            (950 :> Same(60 * ONE)) @@ (900 :> Same(Null)))

(* three hours; temperature_850hPa is null at the last one, and the series *)
(* at 900 hPa stops after the first                                        *)
F_hours ==
  Hourly(3, (950 :> <<23 * ONE, 22 * ONE, 21 * ONE>>) @@ (900 :> <<19 * ONE>>)
            @@ (850 :> <<11 * ONE, 10 * ONE, Null>>),
            (950 :> <<60 * ONE, 55 * ONE, 50 * ONE>>) @@ (900 :> <<60 * ONE>>)
            @@ (850 :> <<50 * ONE, 45 * ONE, 40 * ONE>>))

Forecasts == {F_inversion, F_unstable, F_coarse, F_capped, F_deep, F_low, F_two,
              F_null_T, F_null_RH, F_hours, NoData}

Observation(T, Td, RH, p) ==
  [temperature |-> T, dewpoint |-> Td, humidity |-> RH, pressure |-> p,
   wind_speed |-> 10 * ONE, wind_gust |-> 20 * ONE]

(* temperature, dew point, humidity: the humidity reading agrees with the  *)
(* dew point to within two percent                                         *)
Readings == {<<28 * ONE, 20 * ONE, 60 * ONE>>, <<28 * ONE, 20 * ONE, 62 * ONE>>,
             <<30 * ONE, 10 * ONE, 29 * ONE>>}

SurfacePressures == {990 * ONE, 1000 * ONE, 1013 * ONE}

(* observations a sensor fault or a wrong unit can deliver: no pressure,   *)
(* and a relative humidity above 100 %                                     *)
S_no_pressure == Observation(28 * ONE, 20 * ONE, 60 * ONE, 0)

S_humid == Observation(28 * ONE, 20 * ONE, 160 * ONE, 1013 * ONE)

Stations ==
  {Observation(r[1], r[2], r[3], p) : r \in Readings, p \in SurfacePressures}
  \cup {S_no_pressure, S_humid, NoStation}

Hours(d) == IF d = NoData THEN 1 ELSE d.time

Blank == << >>

NotScored == [absent |-> TRUE]

Init ==
  /\ data \in Forecasts
  /\ station \in Stations
  /\ clock \in 0..(Hours(data) - 1)
  /\ pc = "start"
  /\ current_hour_idx = 0
  /\ surface = NoResult
  /\ p_env = Blank /\ T_env = Blank /\ RH_env = Blank
  /\ p_fine = Blank /\ T_fine = Blank /\ RH_fine = Blank
  /\ T_parcel_sb = Blank /\ p_lcl_sb = 0 /\ result_sb = NoResult
  /\ p_idx = 0 /\ max_cape = 0 /\ mu_result = NoResult
  /\ results = NoResult
  /\ scorer_in = NotScored /\ severe = NotScored /\ convective_risk = NotScored
  /\ earlier = NotInvoked
  /\ MonitorsIdle

(* esegui_report, line 1633: the next report calls the engine again on the *)
(* same arguments; the wall clock has moved on in the meantime (line 913). *)
Reinvoke ==
  /\ pc = "done"
  /\ earlier = NotInvoked
  /\ earlier' = results
  /\ clock' \in clock..(Hours(data) - 1)
  /\ pc' = "start"
  /\ current_hour_idx' = 0
  /\ surface' = NoResult
  /\ p_env' = Blank /\ T_env' = Blank /\ RH_env' = Blank
  /\ p_fine' = Blank /\ T_fine' = Blank /\ RH_fine' = Blank
  /\ T_parcel_sb' = Blank /\ p_lcl_sb' = 0 /\ result_sb' = NoResult
  /\ p_idx' = 0 /\ max_cape' = 0 /\ mu_result' = NoResult
  /\ results' = NoResult
  /\ UNCHANGED <<data, station, scorer, monitors>>

Next ==
  \/ SelectHour
  \/ Surface
  \/ BuildProfile
  \/ SortProfile
  \/ Interpolate
  \/ LiftSurface
  \/ CapeSurface
  \/ MuStep
  \/ MuDone
  \/ Finish
  \/ Reinvoke

Spec == Init /\ [][Next]_vars

---------------------------------------------------------------------------
(* calcola_cape_from_profile as a function of its arguments: soundings of   *)
(* 3..MaxLevels levels, 50 hPa apart, the parcel colder or warmer than the *)
(* environment level by level, the LCL at, between or above the levels.    *)

MaxLevels == 5

Offsets == {0 - 2 * ONE, ONE, 3 * ONE}

LclChoices == {1000 * ONE, 925 * ONE, 900 * ONE, 500 * ONE}

HumidityChoices == {ONE \div 2, ONE}

sounding_p(n) == [i \in 1..n |-> (1000 - 50 * (i - 1)) * ONE]

sounding_T(n) == [i \in 1..n |-> (300 - 3 * (i - 1)) * ONE]

parcel_of(q) ==
  [T_surface_C |-> 27 * ONE, Td_surface_C |-> 17 * ONE, p_surface |-> 1000 * ONE,
   RH_surface |-> ONE \div 2, T_surface_K |-> 27 * ONE + ZERO_C, q_surface |-> q]

(* A humidity sample far outside 0..100 % (the code divides the sample by   *)
(* 100 and never bounds it when fewer than four nodes are present, lines   *)
(* 981 and 1004): the vapour pressure then exceeds the level's pressure.   *)
(* WetLevels gives the grid position of that sample, 0 for a sounding      *)
(* without one.                                                            *)
WetHumidity == 57 * ONE

WetLevels == {0, 2}

InitCape ==
  /\ data = NoData /\ station = NoStation /\ clock = 0
  /\ pc = "lifted"
  /\ current_hour_idx = 0
  /\ surface = parcel_of(12000)
  /\ \E n \in 3..MaxLevels :
       /\ p_fine = sounding_p(n)
       /\ T_fine = sounding_T(n)
       /\ \E rh \in HumidityChoices, wet \in WetLevels :
            RH_fine = [i \in 1..n |-> IF i = wet THEN WetHumidity ELSE rh]
       /\ \E off \in [1..n -> Offsets] :
            T_parcel_sb = [i \in 1..n |-> sounding_T(n)[i] + off[i]]
  /\ p_env = p_fine /\ T_env = T_fine /\ RH_env = RH_fine
  /\ p_lcl_sb \in LclChoices
  /\ result_sb = NoResult
  /\ p_idx = 0 /\ max_cape = 0 /\ mu_result = NoResult
  /\ results = NoResult
  /\ scorer_in = NotScored /\ severe = NotScored /\ convective_risk = NotScored
  /\ earlier = NotInvoked
  /\ MonitorsIdle

NextCape == CapeSurface

SpecCape == InitCape /\ [][NextCape]_vars

---------------------------------------------------------------------------
(* The two scorers.  CAPE and CIN in J/kg, shear in m/s, the lifted index  *)
(* in K, gusts in km/h; the score of valuta_instabilita_convettiva and its *)
(* severe_score argument in tenths.  Null is None.                         *)

(* float(x or 0)                                                           *)
or_zero(x) == IF x = Null THEN 0 ELSE x

(* if x: ...                                                               *)
truthy(x) == x # Null /\ x # 0

cape_score(max_cape_f) ==
  IF max_cape_f < 300 THEN 0
  ELSE IF max_cape_f < 800 THEN 10
  ELSE IF max_cape_f < 1500 THEN 20
  ELSE IF max_cape_f < 2500 THEN 30
  ELSE 40

(* if mucape_f >= 1200 and mucape_f >= 0.9 * max_cape: cape_score += 0.5    *)
mucape_bonus(mucape_f, max_cape_f) ==
  IF mucape_f >= 1200 /\ 10 * mucape_f >= 9 * max_cape_f THEN 5 ELSE 0

cin_score(cin_abs) ==
  IF cin_abs > 250 THEN 0
  ELSE IF cin_abs > 175 THEN 5
  ELSE IF cin_abs >= 25 THEN 15
  ELSE 10

li_score(li) ==
  IF li = Null THEN 0
  ELSE IF li <= 0 - 8 THEN 30
  ELSE IF li <= 0 - 6 THEN 22
  ELSE IF li <= 0 - 4 THEN 15
  ELSE IF li <= 0 - 2 THEN 8
  ELSE 0

shear_score(shear) ==
  IF shear < 8 THEN 0
  ELSE IF shear < 12 THEN 10
  ELSE IF shear < 18 THEN 20
  ELSE IF shear < 25 THEN 30
  ELSE 35

synergy_score(max_cape_f, cin_abs, li, shear) ==
  (IF max_cape_f >= 1500 /\ shear >= 15 THEN 10 ELSE 0)
  + (IF li # Null /\ li <= 0 - 5 /\ cin_abs <= 150 THEN 8 ELSE 0)
  + (IF max_cape_f >= 2500 /\ shear >= 20 /\ li # Null /\ li <= 0 - 6
     THEN 12 ELSE 0)

(* The sum left uncapped.                                                  *)
final_score_uncapped(score, severe_score) ==
  IF truthy(severe_score) THEN Max(score, Min(severe_score, 120)) ELSE score

(* if severe_score: score = max(score, min(float(severe_score), 12.0))     *)
(* score = round(min(score, 12.0), 1)                                      *)
final_score(score, severe_score) ==
  Min(IF truthy(severe_score) THEN Max(score, Min(severe_score, 120)) ELSE score,
      120)

(* The tiers tested from the lowest up.                                    *)
risk_level_misordered(score) ==
  IF score >= 55 THEN "moderato"
  ELSE IF score >= 80 THEN "alto"
  ELSE IF score >= 105 THEN "molto_alto"
  ELSE "basso"

risk_level(score) ==
  IF score >= 105 THEN "molto_alto"
  ELSE IF score >= 80 THEN "alto"
  ELSE IF score >= 55 THEN "moderato"
  ELSE "basso"

risk_warning(score) ==
  IF score >= 105 THEN "AVVISO: TEMPORALI SEVERI"
  ELSE IF score >= 80 THEN "AVVISO: RISCHIO FORTI TEMPORALI"
  ELSE IF score >= 55 THEN "AVVISO: INSTABILITA CONVETTIVA MARCATA"
  ELSE "None"

risk_record(score, max_cape_f, cin_abs, li, shear) ==
  [score |-> score, level |-> risk_level(score), warning |-> risk_warning(score),
   event_trigger |-> score >= 80, max_cape |-> max_cape_f, cin_abs |-> cin_abs,
   li |-> li, shear |-> shear]

ingredients(mucape_f, max_cape_f, cin_abs, li, shear, severe_score) ==
  risk_record(final_score(cape_score(max_cape_f) + mucape_bonus(mucape_f, max_cape_f)
                          + cin_score(cin_abs) + li_score(li) + shear_score(shear)
                          + synergy_score(max_cape_f, cin_abs, li, shear),
                          severe_score),
              max_cape_f, cin_abs, li, shear)

valuta_instabilita_convettiva(sbcape, mucape, cin, li_value, bulk_shear, severe_score) ==
  ingredients(or_zero(mucape), Max(or_zero(sbcape), or_zero(mucape)),
              Abs(or_zero(cin)), li_value, or_zero(bulk_shear), severe_score)

(* calcola_severe_score: max(sbcape, mucape) if mucape else sbcape          *)
severe_max_cape(sbcape, mucape) ==
  IF truthy(mucape) THEN Max(sbcape, mucape) ELSE sbcape

severe_points(max_cape_f, cin, shear, raffica_kmh) ==
  (IF max_cape_f > 3000 THEN 4 ELSE IF max_cape_f > 2500 THEN 3
   ELSE IF max_cape_f > 1500 THEN 2 ELSE IF max_cape_f > 1000 THEN 1 ELSE 0)
  + (IF cin < 50 THEN 2 ELSE IF cin < 100 THEN 1 ELSE 0)
  + (IF truthy(shear) /\ shear > 15 THEN 3
     ELSE IF truthy(shear) /\ shear > 10 THEN 2 ELSE 0)
  + (IF raffica_kmh > 60 THEN 2 ELSE IF raffica_kmh > 40 THEN 1 ELSE 0)

severe_level(score) ==
  IF score >= 7 THEN "ALLERTA MASSIMA: RISCHIO SUPERCELLE/TORNADO"
  ELSE IF score >= 5 THEN "ALLERTA: TEMPORALI SEVERI PROBABILI"
  ELSE IF score >= 3 THEN "AVVISO: TEMPORALI FORTI POSSIBILI"
  ELSE "None"

severe_record(score) == [score |-> score, level |-> severe_level(score)]

(* abs(None) and a comparison with None raise TypeError.                   *)
TypeError == [raised |-> "TypeError"]

calcola_severe_score(res, raffica_kmh) ==
  IF res.cin = Null \/ res.sbcape = Null THEN TypeError
  ELSE severe_record(severe_points(severe_max_cape(res.sbcape, res.mucape),
                                   Abs(res.cin), res.bulk_shear, raffica_kmh))

SevereScore ==
  /\ scorer_in # NotScored
  /\ severe = NotScored
  /\ severe' = calcola_severe_score(scorer_in, scorer_in.raffica_kmh)
  /\ UNCHANGED <<engine, monitors, scorer_in, convective_risk>>

ConvectiveRisk ==
  /\ scorer_in # NotScored
  /\ convective_risk = NotScored
  /\ convective_risk' =
       valuta_instabilita_convettiva(scorer_in.sbcape, scorer_in.mucape,
                                     scorer_in.cin, scorer_in.lifted_index,
                                     scorer_in.bulk_shear, scorer_in.severe_score)
  /\ UNCHANGED <<engine, monitors, scorer_in, severe>>

CapeArgs == {Null, 0, 900, 1460, 2600, 3200}
MucapeArgs == {Null, 0, 1300, 3200}
CinArgs == {Null, 0 - 300, 0 - 200, 0 - 40, 0}
LiftedIndexArgs == {Null, 0 - 9, 0 - 7, 0 - 3, 2}
ShearArgs == {Null, 0, 10, 18, 26}
SevereScoreArgs == {Null, 0 - 30, 0, 70, 150}
GustArgs == {0, 50, 70}

InitScore ==
  /\ data = NoData /\ station = NoStation /\ clock = 0
  /\ pc = "done"
  /\ current_hour_idx = 0
  /\ surface = NoResult
  /\ p_env = Blank /\ T_env = Blank /\ RH_env = Blank
  /\ p_fine = Blank /\ T_fine = Blank /\ RH_fine = Blank
  /\ T_parcel_sb = Blank /\ p_lcl_sb = 0 /\ result_sb = NoResult
  /\ p_idx = 0 /\ max_cape = 0 /\ mu_result = NoResult
  /\ results = NoResult
  /\ scorer_in \in [sbcape : CapeArgs, mucape : MucapeArgs, cin : CinArgs,
                    lifted_index : LiftedIndexArgs, bulk_shear : ShearArgs,
                    severe_score : SevereScoreArgs, raffica_kmh : GustArgs]
  /\ severe = NotScored
  /\ convective_risk = NotScored
  /\ earlier = NotInvoked
  /\ MonitorsIdle

NextScore ==
  \/ SevereScore
  \/ ConvectiveRisk

SpecScore == InitScore /\ [][NextScore]_vars

---------------------------------------------------------------------------
(* The last stage of calcola_sbcape_advanced (shear, lifted index, the     *)
(* result dictionary and _validate_sbcape_results) on integration results  *)
(* of any size, the extreme ones included.                                 *)

SbcapeChoices == {0, 1600 * 1000, 6000 * 1000, 6000 * 1000 + 10, 7200 * 1000}

CinChoices == {0, 0 - 120 * 1000, 0 - 500 * 1000, 0 - 500 * 1000 - 10, 0 - 800 * 1000}

SurfaceTemperatures == {5 * ONE, 27 * ONE}

integration_of(sbcape, cin) ==
  [sbcape |-> sbcape, cin |-> cin, lfc_idx |-> 1, el_idx |-> 2,
   lfc_pressure |-> 950 * ONE, el_pressure |-> 900 * ONE,
   buoyancy |-> <<0 - ONE, ONE, 0 - ONE>>]

InitValidate ==
  /\ data = F_coarse /\ clock = 0
  /\ station \in {NoStation, Observation(28 * ONE, 20 * ONE, 60 * ONE, 1000 * ONE)}
  /\ pc = "finish"
  /\ current_hour_idx = 0
  /\ \E T \in SurfaceTemperatures :
       surface = [parcel_of(12000) EXCEPT !.T_surface_C = T,
                                         !.T_surface_K = T + ZERO_C]
  /\ p_fine = sounding_p(3) /\ T_fine = sounding_T(3)
  /\ RH_fine = [i \in 1..3 |-> ONE \div 2]
  /\ p_env = p_fine /\ T_env = T_fine /\ RH_env = RH_fine
  /\ T_parcel_sb = sounding_T(3) /\ p_lcl_sb = 925 * ONE
  /\ \E sbcape \in SbcapeChoices, cin \in CinChoices :
       result_sb = integration_of(sbcape, cin)
  /\ p_idx = 3 /\ max_cape = 0 /\ mu_result = NoResult
  /\ results = NoResult
  /\ scorer_in = NotScored /\ severe = NotScored /\ convective_risk = NotScored
  /\ earlier = NotInvoked
  /\ MonitorsIdle

NextValidate == Finish

SpecValidate == InitValidate /\ [][NextValidate]_vars

---------------------------------------------------------------------------
(* lift_parcel on its own: a parcel with or without moisture, lifted       *)
(* through grids that differ in the levels between the start and the top.  *)

GridLevels == {950, 900, 800, 650, 520, 480, 400}

StartTemperatures == {280 * ONE, 300 * ONE}

StartPressures == {1000 * ONE, 1013 * ONE}

MixingRatios == {0, 12000}

(* the start level followed by the chosen levels, highest pressure first   *)
RECURSIVE grid_from(_, _)
grid_from(p_levels, S) ==
  IF S = {} THEN p_levels
  ELSE LET top == CHOOSE m \in S : \A k \in S : k <= m
       IN  grid_from(Append(p_levels, top * ONE), S \ {top})

InitLift ==
  /\ data = NoData /\ station = NoStation /\ clock = 0
  /\ pc = "grid"
  /\ current_hour_idx = 0
  /\ \E T \in StartTemperatures, p \in StartPressures, q \in MixingRatios :
       /\ surface = [parcel_of(q) EXCEPT !.T_surface_K = T,
                                         !.T_surface_C = T - ZERO_C,
                                         !.p_surface = p]
       /\ \E S \in SUBSET GridLevels :
            /\ Cardinality(S) \in 1..(MaxLevels - 1)
            /\ p_fine = grid_from(<<p>>, S)
  /\ T_fine = [i \in 1..Len(p_fine) |-> 280 * ONE]
  /\ RH_fine = [i \in 1..Len(p_fine) |-> ONE \div 2]
  /\ p_env = p_fine /\ T_env = T_fine /\ RH_env = RH_fine
  /\ T_parcel_sb = Blank /\ p_lcl_sb = 0 /\ result_sb = NoResult
  /\ p_idx = 0 /\ max_cape = 0 /\ mu_result = NoResult
  /\ results = NoResult
  /\ scorer_in = NotScored /\ severe = NotScored /\ convective_risk = NotScored
  /\ earlier = NotInvoked
  /\ MonitorsIdle

NextLift == LiftSurface

SpecLift == InitLift /\ [][NextLift]_vars

---------------------------------------------------------------------------
(* send_monitors.main run by cron.                                         *)

InitMonitor ==
  /\ data = NoData /\ station = NoStation /\ clock = 0
  /\ pc = "done"
  /\ current_hour_idx = 0
  /\ surface = NoResult
  /\ p_env = Blank /\ T_env = Blank /\ RH_env = Blank
  /\ p_fine = Blank /\ T_fine = Blank /\ RH_fine = Blank
  /\ T_parcel_sb = Blank /\ p_lcl_sb = 0 /\ result_sb = NoResult
  /\ p_idx = 0 /\ max_cape = 0 /\ mu_result = NoResult
  /\ results = NoResult
  /\ scorer_in = NotScored /\ severe = NotScored /\ convective_risk = NotScored
  /\ earlier = NotInvoked
  /\ MonitorsIdle

NextMonitor ==
  \/ Analyse
  \/ Dispatch
  \/ MarkSent
  \/ Tick

SpecMonitor == InitMonitor /\ [][NextMonitor]_vars

---------------------------------------------------------------------------
(* Properties.                                                             *)

Returned == pc = "done" /\ results # NoResult

Integrated == result_sb # NoResult

Sorted == pc \in {"sorted", "grid", "lifted", "mu", "finish"} \/ Returned

Levels(s) == 0..(Len(s) - 1)

(* C1: whenever calcola_sbcape_advanced returns a result with mucape       *)
(* present, mucape >= sbcape.                                              *)
C1_MucapeAtLeastSbcape ==
  (Returned /\ results.mucape # None) => results.mucape >= results.sbcape

(* C2: the CAPE returned by calcola_cape_from_profile (for the surface     *)
(* parcel and for the most-unstable candidate kept) is >= 0, and so are    *)
(* the sbcape and, when present, mucape fields of the result.              *)
C2_CapeNonNegative ==
  /\ Integrated => result_sb.sbcape >= 0
  /\ mu_result # NoResult => mu_result.sbcape >= 0
  /\ Returned => /\ results.sbcape >= 0
                 /\ results.mucape # None => results.mucape >= 0

C2_Witness ==
  /\ Returned
  /\ results.sbcape > 0
  /\ results.mucape # None /\ results.mucape > 0
  /\ result_sb.cin < 0

(* C3: whenever an LFC is reported, LFC pressure <= LCL pressure <=        *)
(* surface pressure, also when no grid level reaches the LCL.              *)
C3_LfcNotBelowLcl ==
  (Integrated /\ result_sb.lfc_pressure # None)
    => /\ result_sb.lfc_pressure <= p_lcl_sb
       /\ p_lcl_sb <= surface.p_surface

(* C4: if buoyancy < 0 at every grid level, calcola_cape_from_profile      *)
(* finds no LFC and returns cin = 0 and cape = 0.                          *)
C4_StableColumn ==
  (Integrated /\ \A i \in Levels(p_fine) : At(result_sb.buoyancy, i) < 0)
    => /\ result_sb.lfc_idx = None
       /\ result_sb.cin = 0
       /\ result_sb.sbcape = 0

C4_Witness ==
  /\ Integrated
  /\ Len(p_fine) = MaxLevels
  /\ \A i \in Levels(p_fine) : At(result_sb.buoyancy, i) < 0

(* C5: when no LFC is found there is no EL, both pressures are absent and  *)
(* CAPE = CIN = 0; LFC and EL are both present or both absent.             *)
C5_NoLfcNoEl ==
  Integrated
    => /\ result_sb.lfc_idx = None
            => /\ result_sb.el_idx = None
               /\ result_sb.lfc_pressure = None
               /\ result_sb.el_pressure = None
               /\ result_sb.sbcape = 0
               /\ result_sb.cin = 0
       /\ (result_sb.lfc_pressure = None) <=> (result_sb.el_pressure = None)
       /\ (result_sb.lfc_idx = None) <=> (result_sb.el_idx = None)

(* no LFC although the parcel is buoyant somewhere                         *)
C5_Witness ==
  /\ Integrated
  /\ result_sb.lfc_idx = None
  /\ \E i \in Levels(p_fine) : At(result_sb.buoyancy, i) > 0
  /\ \E i \in Levels(p_fine) : At(result_sb.buoyancy, i) < 0

(* buoyancy <= 0 below level k >= 1, which is at or above the LCL, > 0 on  *)
(* k..m, < 0 at m + 1                                                      *)
PositiveBand(b, k, m) ==
  /\ 1 <= k /\ k <= m /\ m + 1 < Len(b)
  /\ At(p_fine, k) <= p_lcl_sb
  /\ \A i \in 0..(k - 1) : At(b, i) <= 0
  /\ \A i \in k..m : At(b, i) > 0
  /\ At(b, m + 1) < 0

(* C6: for such a sounding an LFC is reported at level k, an EL at level   *)
(* m + 1, and SBCAPE > 0.                                                  *)
C6_PositiveBand ==
  Integrated
    => \A k, m \in Levels(p_fine) :
         PositiveBand(result_sb.buoyancy, k, m)
           => /\ result_sb.lfc_idx = k
              /\ result_sb.el_idx = m + 1
              /\ result_sb.sbcape > 0

SevereExample ==
  /\ Max(or_zero(scorer_in.sbcape), or_zero(scorer_in.mucape)) = 3200
  /\ scorer_in.cin = 0 - 40
  /\ scorer_in.bulk_shear = 18
  /\ scorer_in.lifted_index = 0 - 7

(* C8: CAPE = 3200 J/kg, CIN = -40 J/kg, shear = 18 m/s, LI = -7 give a    *)
(* score >= 10 and the highest tier.                                       *)
C8_SevereExample ==
  (convective_risk # NotScored /\ SevereExample)
    => /\ convective_risk.score >= 100
       /\ convective_risk.level = "molto_alto"
       /\ convective_risk.warning = "AVVISO: TEMPORALI SEVERI"
       /\ convective_risk.event_trigger

C8_Witness ==
  /\ convective_risk # NotScored
  /\ SevereExample
  /\ scorer_in.sbcape = 3200
  /\ ~truthy(scorer_in.severe_score)
  /\ convective_risk.score = 120

(* C9: the sorted profile has the surface observation first and strictly   *)
(* decreasing pressure, also when the surface pressure equals a standard   *)
(* level.                                                                  *)
C9_SurfaceFirstStrictlyDecreasing ==
  Sorted
    => /\ p_env[1] = surface.p_surface
       /\ T_env[1] = surface.T_surface_K
       /\ RH_env[1] = surface.RH_surface
       /\ \A i \in 1..(Len(p_env) - 1) : p_env[i] > p_env[i + 1]

Sample(p_level) == At(data.temperature[p_level], current_hour_idx)

Present(p_level) ==
  /\ usable(data.temperature[p_level], current_hour_idx)
  /\ Sample(p_level) # Null

(* C10: a forecast level is in the profile only if its pressure is <= the  *)
(* surface pressure and its temperature sample at the selected hour is     *)
(* present.                                                                *)
C10_OnlyEligibleLevels ==
  pc = "profile"
    => \A i \in 2..Len(p_env) :
         /\ p_env[i] <= surface.p_surface
         /\ \E p_level \in LevelSet :
              /\ p_env[i] = p_level * ONE
              /\ Present(p_level)
              /\ T_env[i] = Sample(p_level) + ZERO_C

(* a level below ground, a null sample, and two levels taken               *)
C10_Witness ==
  /\ pc = "profile"
  /\ Len(p_env) = 3
  /\ \E p_level \in LevelSet : Present(p_level) /\ p_level * ONE > surface.p_surface
  /\ \E p_level \in LevelSet :
       /\ usable(data.temperature[p_level], current_hour_idx)
       /\ Sample(p_level) = Null
       /\ p_level * ONE <= surface.p_surface

Assembled == surface # NoResult /\ pc \notin {"start", "hour", "surface"}

(* the humidity series of the level is absent or too short, or its sample  *)
(* at the selected hour is null                                            *)
MissingRH(p_level) ==
  \/ ~rh_usable(data, current_hour_idx, p_level)
  \/ At(data.relative_humidity[p_level], current_hour_idx) = Null

Substitute(p_level) == IF p_level > 500 THEN 500000 ELSE 300000

(* C11: once the profile is assembled, every forecast level at or above    *)
(* the surface with a temperature and a missing humidity is in the profile *)
(* with the substitute 0.5 (p > 500 hPa) or 0.3.                           *)
C11_SubstituteHumidity ==
  Assembled
    => \A p_level \in LevelSet :
         (Present(p_level) /\ p_level * ONE <= surface.p_surface
          /\ MissingRH(p_level))
           => \E i \in 1..Len(p_env) :
                /\ p_env[i] = p_level * ONE
                /\ RH_env[i] = Substitute(p_level)

(* C12: a profile of fewer than 3 levels, surface included, ends the call  *)
(* with None; the parcel is not lifted, nothing is integrated and the      *)
(* most-unstable search does not run.                                      *)
C12_InsufficientProfile ==
  (pc \notin {"start", "hour", "surface"} /\ Len(p_env) < 3)
    => /\ pc = "done"
       /\ results = NoResult
       /\ p_fine = Blank
       /\ T_parcel_sb = Blank
       /\ result_sb = NoResult
       /\ mu_result = NoResult

(* the surface and one forecast level                                      *)
C12_Witness ==
  /\ pc = "done"
  /\ surface # NoResult
  /\ Len(p_env) = 2
  /\ results = NoResult

(* the start levels within 300 hPa of the surface                          *)
Candidates ==
  {i \in Levels(p_fine) : At(p_fine, i) >= station.pressure - 300 * ONE}

Searched == pc = "finish" /\ station # NoStation

C14_CinNotPositive ==
  Integrated => result_sb.cin <= 0

Warnings == IF "warnings" \in DOMAIN results THEN results.warnings ELSE << >>

Unvalidated ==
  result_record(calcola_wind_shear(data, current_hour_idx, station),
                lifted_index(p_fine, T_fine, T_parcel_sb))

(* C15: once the integration has run the call returns a result, whatever   *)
(* the size of sbcape and cin; every field of it other than warnings is    *)
(* the one computed before validation; and the SBCAPE advisory is among    *)
(* the warnings exactly when sbcape > 6000 J/kg.                           *)
C15_ValidationNonFatal ==
  (pc = "done" /\ result_sb # NoResult)
    => /\ results # NoResult
       /\ \A f \in DOMAIN Unvalidated : results[f] = Unvalidated[f]
       /\ DOMAIN results \subseteq DOMAIN Unvalidated \cup {"warnings"}
       /\ (\E i \in 1..Len(Warnings) : Warnings[i] = "sbcape_high")
            <=> results.sbcape > 6000 * 1000

(* sbcape > 6000 J/kg and cin < -500 J/kg                                  *)
C15_Witness ==
  /\ Returned
  /\ results.sbcape > 6000 * 1000
  /\ results.cin < 0 - 500 * 1000
  /\ Len(Warnings) = 2

IsNumber(x) == x \in Int

(* the vapour pressure at the surface dew point is at or above the         *)
(* surface pressure                                                        *)
SurfaceOutOfDomain ==
  /\ surface # NoResult
  /\ surface.Td_surface_C # Null
  /\ surface.p_surface <= vapor_pressure(surface.Td_surface_C)

(* C16: mixing_ratio(e, p) with p <= e gives an error, never a number.     *)
C16_MixingRatioDomain ==
  SurfaceOutOfDomain => ~IsNumber(surface.q_surface)

(* ---- C17 ---------------------------------------------------------------- *)
(* The kernel fails at grid level i when the environment's vapour pressure  *)
(* there is not below the level's pressure (mixing_ratio needs e < p).      *)
KernelFailureAt(i) ==
  FMul(vapor_pressure(At(T_fine, i) - ZERO_C), At(RH_fine, i)) >= At(p_fine, i)

(* the buoyancy of level i with the level's environment taken as saturated  *)
SaturatedFallback(i) ==
  buoyancy_at(T_parcel_sb, p_fine, T_fine, [RH_fine EXCEPT ![i + 1] = ONE],
              surface.q_surface, p_lcl_sb, i)

(* C17: a kernel failure at a single level of the buoyancy integration is   *)
(* replaced by a conservative fallback: the level is either treated as      *)
(* saturated or skipped, and the integration still returns a result.        *)
C17_KernelFailureFallback ==
  (pc = "mu")
    => /\ Integrated
       /\ \A i \in Levels(p_fine) :
            KernelFailureAt(i)
              => \/ Len(result_sb.buoyancy) < Len(p_fine)
                 \/ At(result_sb.buoyancy, i) = SaturatedFallback(i)

(* ---- C18 ---------------------------------------------------------------- *)
(* a station observation outside the input contract: a surface pressure     *)
(* that is not positive, or a relative humidity outside 0..100 %            *)
ContractViolation ==
  /\ station # NoStation
  /\ \/ station.pressure <= 0
     \/ station.humidity < 0
     \/ station.humidity > 100 * ONE

(* C18: an observation that violates the input contract is rejected while   *)
(* the profile is built: no kernel function has been evaluated on it (the   *)
(* surface mixing ratio is never computed) and no result is returned.       *)
C18_RejectBeforeKernel ==
  ContractViolation => surface = NoResult /\ results = NoResult

(* ---- C19 ---------------------------------------------------------------- *)
ConvectiveFields ==
  {"sbcape", "mucape", "cin", "lifted_index", "lcl_pressure", "lfc_pressure",
   "el_pressure", "bulk_shear"}

(* C19: the engine is a pure function of its arguments: a second invocation *)
(* on the same forecast and the same surface observation returns the same   *)
(* convective fields as the first, whenever it runs.                        *)
C19_PureFunction ==
  (pc = "done" /\ earlier # NotInvoked)
    => /\ (results = NoResult) <=> (earlier = NoResult)
       /\ results # NoResult
            => \A f \in ConvectiveFields : results[f] = earlier[f]

(* ---- C20 ---------------------------------------------------------------- *)
(* the dry adiabat through the start: T_start * (p / p_start)^(Rd/Cp)       *)
DryAdiabat(p) ==
  FMul(surface.T_surface_K, Pow(FDiv(p, surface.p_surface), RD_CP))

(* the rounding of the fixed-point arithmetic over the steps of one lift:   *)
(* Pow is exact to a few units of 10^-6, about 0.001 K per step at 300 K    *)
DryTolerance == ONE \div 100

(* C20: a parcel without moisture has its LCL at p_start / 2, and at every  *)
(* grid level at or below the LCL (p >= LCL) its temperature is that of the *)
(* dry adiabat through the start, T_start * (p / p_start)^(Rd/Cp), however  *)
(* many grid levels lie in between.                                         *)
C20_DryAdiabaticLift ==
  (pc = "lifted" /\ surface.q_surface = 0)
    => /\ p_lcl_sb = surface.p_surface \div 2
       /\ \A i \in Levels(p_fine) :
            At(p_fine, i) >= p_lcl_sb
              => Abs(At(T_parcel_sb, i) - DryAdiabat(At(p_fine, i))) <= DryTolerance

(* a dry parcel lifted over at least two intermediate levels below its LCL, *)
(* on a grid that also has a level above the LCL                            *)
C20_Witness ==
  /\ pc = "lifted"
  /\ surface.q_surface = 0
  /\ Len(p_fine) >= 5
  /\ At(p_fine, 3) >= p_lcl_sb
  /\ At(p_fine, Len(p_fine) - 1) < p_lcl_sb

(* ---- C22 ---------------------------------------------------------------- *)
(* buoyancy goes from <= 0 at level i - 1 to > 0 at level i                 *)
Transition(buoyancy, i) ==
  i >= 1 /\ At(buoyancy, i) > 0 /\ At(buoyancy, i - 1) <= 0

(* the index of the first grid level at or above the LCL                    *)
LclIndex == find_lcl_idx(p_fine, p_lcl_sb)

(* C22: a reported LFC index k is at least 1 and at least the LCL index,    *)
(* the buoyancy goes from <= 0 to > 0 at k, and no index between the LCL    *)
(* index and k has that transition.                                         *)
C22_LfcFirstTransition ==
  (Integrated /\ result_sb.lfc_idx # None)
    => /\ result_sb.lfc_idx >= Max(1, LclIndex)
       /\ Transition(result_sb.buoyancy, result_sb.lfc_idx)
       /\ \A j \in Max(1, LclIndex)..(result_sb.lfc_idx - 1) :
            ~Transition(result_sb.buoyancy, j)

(* an LFC reported although the buoyancy already has a transition below the *)
(* LCL index                                                                *)
C22_Witness ==
  /\ Integrated
  /\ result_sb.lfc_idx # None
  /\ \E j \in 1..(LclIndex - 1) : Transition(result_sb.buoyancy, j)

(* ---- C23 ---------------------------------------------------------------- *)
(* C23: with an LFC, the EL index is above or at the LFC index; no level    *)
(* strictly between them has negative buoyancy; the EL is either the first  *)
(* level above the LFC with negative buoyancy or, when there is none, the   *)
(* topmost level; and the EL pressure is not above the LFC pressure.        *)
C23_ElFirstNegative ==
  (Integrated /\ result_sb.lfc_idx # None)
    => /\ result_sb.el_idx # None
       /\ result_sb.el_idx >= result_sb.lfc_idx
       /\ \A j \in (result_sb.lfc_idx + 1)..(result_sb.el_idx - 1) :
            At(result_sb.buoyancy, j) >= 0
       /\ \/ /\ result_sb.el_idx > result_sb.lfc_idx
             /\ At(result_sb.buoyancy, result_sb.el_idx) < 0
          \/ /\ result_sb.el_idx = Len(p_fine) - 1
             /\ \A j \in (result_sb.lfc_idx + 1)..(Len(p_fine) - 1) :
                  At(result_sb.buoyancy, j) >= 0
       /\ result_sb.el_pressure <= result_sb.lfc_pressure

(* an EL below the top of the grid with a buoyant level between it and the  *)
(* LFC                                                                      *)
C23_Witness ==
  /\ Integrated
  /\ result_sb.lfc_idx # None
  /\ result_sb.el_idx > result_sb.lfc_idx + 1
  /\ result_sb.el_idx < Len(p_fine) - 1

(* ---- C28 ---------------------------------------------------------------- *)
(* C28: whenever a grid level at or above the LCL (pressure <= p_lcl) has   *)
(* positive buoyancy, an LFC is reported.                                   *)
C28_BuoyantAboveLclHasLfc ==
  (Integrated /\ \E i \in Levels(p_fine) :
                   At(p_fine, i) <= p_lcl_sb /\ At(result_sb.buoyancy, i) > 0)
    => result_sb.lfc_idx # None

(* ---- C24 ---------------------------------------------------------------- *)
(* the intervals of the grid, numbered by their upper level                 *)
Intervals == 1..(Len(p_fine) - 1)

(* the branch lift_parcel takes for the interval that ends at level i       *)
RegimeOf(i) == regime(At(p_fine, i - 1), At(p_fine, i), p_lcl_sb)

(* C24: over a strictly decreasing grid each interval of the lift is in one *)
(* of the regimes dry, crossing and moist; the dry regime is used exactly   *)
(* for the intervals with both endpoints at pressure >= LCL and gives the   *)
(* dry-adiabatic temperature; after a crossing or moist interval no later   *)
(* interval is dry, after a moist one every later one is moist, and at most *)
(* one interval is a crossing.                                              *)
C24_RegimeOrder ==
  (pc = "lifted")
    => /\ \A i \in Intervals :
            /\ RegimeOf(i) \in {"dry", "crossing", "moist"}
            /\ RegimeOf(i) = "dry"
                 <=> (At(p_fine, i - 1) >= p_lcl_sb /\ At(p_fine, i) >= p_lcl_sb)
            /\ RegimeOf(i) = "dry"
                 => At(T_parcel_sb, i)
                      = FMul(At(T_parcel_sb, i - 1),
                             Pow(FDiv(At(p_fine, i), At(p_fine, i - 1)), RD_CP))
       /\ \A i, j \in Intervals :
            i < j => /\ RegimeOf(i) # "dry" => RegimeOf(j) # "dry"
                     /\ RegimeOf(i) = "moist" => RegimeOf(j) = "moist"
       /\ Cardinality({i \in Intervals : RegimeOf(i) = "crossing"}) <= 1

(* a lift that goes through the three regimes, with two moist intervals     *)
C24_Witness ==
  /\ pc = "lifted"
  /\ \E i \in Intervals : RegimeOf(i) = "dry"
  /\ \E i \in Intervals : RegimeOf(i) = "crossing"
  /\ Cardinality({i \in Intervals : RegimeOf(i) = "moist"}) >= 2

(* ---- C25 ---------------------------------------------------------------- *)
(* N forward-Euler steps of the moist adiabat from p_from to p_to, each     *)
(* over (p_to - p_from) / N                                                 *)
RECURSIVE euler_substeps(_, _, _, _, _)
euler_substeps(T_temp, p_from, p_to, N, k) ==
  IF k >= N THEN T_temp
  ELSE LET dp == (p_to - p_from) \div N
       IN  euler_substeps(
             T_temp + FMul(moist_adiabatic_lapse_rate(T_temp, p_from + k * dp), dp),
             p_from, p_to, N, k + 1)

(* C25: the interval that straddles the LCL is integrated with 10 forward-  *)
(* Euler sub-steps from the LCL to its upper endpoint, and each interval    *)
(* above the LCL with 5 sub-steps.                                          *)
C25_SubSteps ==
  (pc = "lifted")
    => \A i \in Intervals :
         /\ RegimeOf(i) = "crossing"
              => At(T_parcel_sb, i)
                   = euler_substeps(
                       FMul(At(T_parcel_sb, i - 1),
                            Pow(FDiv(p_lcl_sb, At(p_fine, i - 1)), RD_CP)),
                       p_lcl_sb, At(p_fine, i), 10, 0)
         /\ RegimeOf(i) = "moist"
              => At(T_parcel_sb, i)
                   = euler_substeps(At(T_parcel_sb, i - 1), At(p_fine, i - 1),
                                    At(p_fine, i), 5, 0)

(* ---- C26 ---------------------------------------------------------------- *)
(* the profile has been resampled onto the fine grid                        *)
Resampled ==
  /\ pc \in {"grid", "lifted", "mu", "finish", "done"}
  /\ Len(p_env) >= 4
  /\ p_fine # Blank

(* max(200, lowest observed pressure)                                       *)
GridFloor == Max(200 * ONE, p_env[Len(p_env)])

(* C26: with at least 4 levels in the profile, the fine grid starts at the  *)
(* surface pressure, goes down in steps of exactly 10 hPa, stays at or      *)
(* above max(200, lowest observed pressure) and ends within 10 hPa of it.   *)
C26_FineGrid ==
  Resampled
    => /\ p_fine[1] = surface.p_surface
       /\ \A i \in 1..(Len(p_fine) - 1) : p_fine[i] - p_fine[i + 1] = 10 * ONE
       /\ \A i \in 1..Len(p_fine) : p_fine[i] >= GridFloor
       /\ p_fine[Len(p_fine)] - GridFloor <= 10 * ONE

(* a resampled profile whose span is not a multiple of 10 hPa, lifted and   *)
(* returned                                                                 *)
C26_Witness ==
  /\ Resampled
  /\ pc = "done"
  /\ results # NoResult
  /\ Len(p_fine) > Len(p_env)
  /\ p_fine[Len(p_fine)] - GridFloor < 10 * ONE

(* ---- C29 ---------------------------------------------------------------- *)
(* the score of valuta_instabilita_convettiva on the arguments of the call  *)
(* with sbcape replaced by s                                                *)
ScoreWithSbcape(s) ==
  valuta_instabilita_convettiva(s, scorer_in.mucape, scorer_in.cin,
                                scorer_in.lifted_index, scorer_in.bulk_shear,
                                scorer_in.severe_score).score

(* C29: the score does not decrease when sbcape increases and every other   *)
(* argument is kept.                                                        *)
C29_MonotoneInSbcape ==
  (convective_risk # NotScored /\ scorer_in.sbcape # Null)
    => \A s \in CapeArgs \ {Null} :
         scorer_in.sbcape <= s => convective_risk.score <= ScoreWithSbcape(s)

(* ---- C30 ---------------------------------------------------------------- *)
(* the CAPE of every candidate level of the window                          *)
CandidateCapes ==
  [i \in Candidates |-> mu_candidate(T_fine, p_fine, RH_fine, i).sbcape]

(* nothing is kept exactly when every candidate has CAPE 0; what is kept    *)
(* has positive CAPE and is the lowest candidate with the greatest CAPE     *)
FirstMaximumKept(capes) ==
  /\ (mu_result = NoResult) <=> (\A i \in DOMAIN capes : capes[i] = 0)
  /\ mu_result # NoResult
       => /\ mu_result.sbcape > 0
          /\ \E i \in DOMAIN capes :
               /\ mu_result.mu_level = At(p_fine, i)
               /\ mu_result.sbcape = capes[i]
               /\ \A j \in DOMAIN capes :
                    /\ capes[j] <= capes[i]
                    /\ j < i => capes[j] < capes[i]

(* C30: calcola_mucape returns nothing exactly when there is no station     *)
(* observation or every candidate of the 300 hPa window has CAPE 0; a       *)
(* result returned has CAPE > 0 and is the first candidate from the surface *)
(* up that attains the maximum; mucape and mu_level are absent from the     *)
(* output exactly when nothing was returned.                                *)
C30_MucapeAbsentOrFirstMaximum ==
  /\ pc = "finish"
       => IF station = NoStation THEN mu_result = NoResult
          ELSE FirstMaximumKept(CandidateCapes)
  /\ (pc = "done" /\ results # NoResult)
       => /\ (results.mucape = None) <=> (mu_result = NoResult)
          /\ (results.mu_level = None) <=> (mu_result = NoResult)

(* the search has kept a level above the surface and gone on to a higher    *)
(* candidate that did not replace it                                        *)
C30_Witness ==
  /\ pc = "finish"
  /\ station # NoStation
  /\ mu_result # NoResult
  /\ mu_result.mu_level < At(p_fine, 0)
  /\ mu_result.mu_level > At(p_fine, p_idx - 1)

(* ---- C21 ---------------------------------------------------------------- *)
(* the ARPAL levels from the mildest to the worst                           *)
LevelRank(value_mm) ==
  IF arpal_level(value_mm) = "Verde" THEN 0
  ELSE IF arpal_level(value_mm) = "Giallo" THEN 1
  ELSE IF arpal_level(value_mm) = "Arancione" THEN 2
  ELSE 3

(* main has just delivered and marked a rain notification that was not     *)
(* forced, less than an hour after the one marked before                    *)
RepeatedWithinHour ==
  /\ m_pc = "done"
  /\ "omirl" \in marked
  /\ "omirl" \in delivered
  /\ ~force
  /\ omirl_previous.last_send_ts # None
  /\ omirl_state.last_send_ts - omirl_previous.last_send_ts < 60

(* C21: without --force, a rain notification that follows another one by    *)
(* less than an hour is sent only if the maximum ARPAL level has worsened.  *)
C21_NoRepeatWithinHour ==
  RepeatedWithinHour
    => LevelRank(omirl_state.max_rain_mm) > LevelRank(omirl_previous.max_rain_mm)

(* ---- C27 ---------------------------------------------------------------- *)
(* C27: main marks a monitor as sent only after the dispatch and only if    *)
(* that monitor's own alert reached at least one chat; when nothing was     *)
(* delivered no monitor is marked.                                          *)
C27_MarkOnlyDelivered ==
  /\ marked \subseteq delivered
  /\ m_pc \in {"dispatch", "sent"} => marked = {}
  /\ (m_pc = "done" /\ delivered = {}) => marked = {}
=============================================================================
